---- MODULE Spec2Model ----
(***************************************************************************)
(* Ingestion-to-index pipeline of the Week-1 project: text cleaning and    *)
(* segmentation (ingest/clean.py), keyword extraction                      *)
(* (ingest/extractors.py), record loading (ingest/loaders.py) and the      *)
(* build command (ingest/build_index.py).                                  *)
(*                                                                         *)
(* A text is a sequence of one-character strings; the regular expressions  *)
(* of the source are translated character by character, with Python's     *)
(* leftmost, non-overlapping, greedy matching.                             *)
(***************************************************************************)
EXTENDS Integers, Sequences, FiniteSets, TLC

VARIABLES
    \* basic_clean: the argument, the result, the result of a second call
    cleanIn, cleanOnce, cleanTwice, cleanPc,
    \* segment_by_divider_and_headings: markdown, parts, the loop index i,
    \* sections, and the position in the function
    markdown, parts, segI, sections, segPc,
    \* deduplicate_docs: docs, the set seen, the list out, the loop position
    docs, seen, out, dedupI, dedupPc,
    \* _iter_json_records: the path (a directory or a single file) as the
    \* list of its files, the position in it, the records yielded so far
    isDir, files, fileI, lineI, yielded, iterPc,
    \* extract_publication_fields: the argument and the dict returned
    exText, exFields, exPc,
    \* load_publications_from_json: field_map, the records of the input, the
    \* position in them, docs
    field_map, recs, recI, resolved, loadDocs, loadPc,
    \* build: the options dataset and save_chunks, docs, chunks, the vector
    \* store vs, the saved index and the chunk metadata file
    dataset, save_chunks, buildDocs, chunks, vs, indexFile, metaFile, buildPc,
    \* load_docs_from_urls: the lines of urls_file, urls, the position in
    \* urls, downloaded, extracted, docs, and the requests and sleeps made
    urlLines, urls, urlI, downloaded, extracted, urlDocs, urlLog, urlPc

cleanVars == <<cleanIn, cleanOnce, cleanTwice, cleanPc>>

segVars == <<markdown, parts, segI, sections, segPc>>

dedupVars == <<docs, seen, out, dedupI, dedupPc>>

iterVars == <<isDir, files, fileI, lineI, yielded, iterPc>>

exVars == <<exText, exFields, exPc>>

loadVars == <<field_map, recs, recI, resolved, loadDocs, loadPc>>

buildVars == <<dataset, save_chunks, buildDocs, chunks, vs, indexFile, metaFile, buildPc>>

urlVars == <<urlLines, urls, urlI, downloaded, extracted, urlDocs, urlLog, urlPc>>

otherVars == <<exVars, loadVars, buildVars, urlVars>>

vars == <<cleanVars, segVars, dedupVars, iterVars, otherVars>>

(***************************************************************************)
(* Characters                                                              *)
(***************************************************************************)
UpperCase == <<"A","B","C","D","E","F","G","H","I","J","K","L","M",
               "N","O","P","Q","R","S","T","U","V","W","X","Y","Z">>

LowerCase == <<"a","b","c","d","e","f","g","h","i","j","k","l","m",
               "n","o","p","q","r","s","t","u","v","w","x","y","z">>

DigitChars == {"0","1","2","3","4","5","6","7","8","9"}

\* \s of the re module and the whitespace of str.split / str.strip
WhiteSpace == {" ", "\t", "\n", "\r", "\f"}

\* \w of the re module
WordChars == {UpperCase[i] : i \in 1..26} \cup {LowerCase[i] : i \in 1..26}
                 \cup DigitChars \cup {"_"}

\* str.lower on one character
LowerOf ==
    [c \in {UpperCase[i] : i \in 1..26} |-> LowerCase[CHOOSE i \in 1..26 : UpperCase[i] = c]]

LowerChar(c) == IF c \in DOMAIN LowerOf THEN LowerOf[c] ELSE c

\* str.lower
Lower(s) == [i \in 1..Len(s) |-> LowerChar(s[i])]

(***************************************************************************)
(* Sequence helpers                                                        *)
(***************************************************************************)
RECURSIVE Flatten(_)
Flatten(ss) == IF ss = <<>> THEN <<>> ELSE Head(ss) \o Flatten(Tail(ss))

\* s[i..j], empty when j < i
Slice(s, i, j) == IF j < i THEN <<>> ELSE SubSeq(s, i, j)

\* the literal lit occurs in s at position i (case folded when fold)
LitAt(s, i, lit, fold) ==
    /\ i >= 1
    /\ i + Len(lit) - 1 <= Len(s)
    /\ \A k \in 1..Len(lit) :
          IF fold THEN LowerChar(s[i + k - 1]) = LowerChar(lit[k])
                  ELSE s[i + k - 1] = lit[k]

\* first position >= i whose character is not in class (Len(s)+1 when none):
\* the end of a greedy run class*
RunEnd(s, i, class) ==
    LET stop == {j \in i..Len(s) : s[j] \notin class}
    IN  IF stop = {} THEN Len(s) + 1
        ELSE CHOOSE j \in stop : \A k \in stop : j <= k

\* str.strip
Strip(s) ==
    LET keep == {i \in 1..Len(s) : s[i] \notin WhiteSpace}
    IN  IF keep = {} THEN <<>>
        ELSE Slice(s, CHOOSE i \in keep : \A k \in keep : i <= k,
                      CHOOSE i \in keep : \A k \in keep : i >= k)

\* len(s.split()): the number of maximal runs of non-whitespace
WordCount(s) ==
    Cardinality({i \in 1..Len(s) :
                    /\ s[i] \notin WhiteSpace
                    /\ (i = 1 \/ s[i - 1] \in WhiteSpace)})

(***************************************************************************)
(* ingest/clean.py                                                         *)
(***************************************************************************)
NL == <<"\n">>

\* <br\s*/?>  with re.I
BrMatchEnd(s, i) ==
    IF LitAt(s, i, <<"<", "b", "r">>, TRUE)
    THEN LET j == RunEnd(s, i + 3, WhiteSpace)
             k == IF j <= Len(s) /\ s[j] = "/" THEN j + 1 ELSE j
         IN  IF k <= Len(s) /\ s[k] = ">" THEN k ELSE 0
    ELSE 0

\* the literal </br>
BrCloseMatchEnd(s, i) ==
    IF LitAt(s, i, <<"<", "/", "b", "r", ">">>, FALSE) THEN i + 4 ELSE 0

\* \n-{3,}\n
RuleMatchEnd(s, i) ==
    IF s[i] = "\n"
    THEN LET j == RunEnd(s, i + 1, {"-"})
         IN  IF j - (i + 1) >= 3 /\ j <= Len(s) /\ s[j] = "\n" THEN j ELSE 0
    ELSE 0

\* :::\s*info\{[^}]*\}  with re.I
InfoMatchEnd(s, i) ==
    IF LitAt(s, i, <<":", ":", ":">>, FALSE)
    THEN LET j == RunEnd(s, i + 3, WhiteSpace)
         IN  IF LitAt(s, j, <<"i", "n", "f", "o", "{">>, TRUE)
             THEN LET k == RunEnd(s, j + 5, {c \in {s[n] : n \in 1..Len(s)} : c # "}"})
                  IN  IF k <= Len(s) THEN k ELSE 0
             ELSE 0
    ELSE 0

\* the literal :::
ColonsMatchEnd(s, i) ==
    IF LitAt(s, i, <<":", ":", ":">>, FALSE) THEN i + 2 ELSE 0

\* The pattern of strip_md_images as the source holds it:
\*   ! GGGmath<space> [^G]* GGG KATEX_INLINE_OPEN [^)]+ KATEX_INLINE_CLOSE
\* (G the grave accent), a literal prefix, a run without grave accents, a
\* literal, a non-empty run without ")" and a closing literal.
\* BackTick stands for the grave accent character, which a TLA+ string
\* cannot hold.
BackTick == "GRAVE"

ImgOpenLit == <<"!", BackTick, BackTick, BackTick, "m", "a", "t", "h", " ">>

ImgMidLit == <<BackTick, BackTick, BackTick, "K", "A", "T", "E", "X", "_", "I", "N", "L", "I", "N", "E",
               "_", "O", "P", "E", "N">>

ImgCloseLit == <<"K", "A", "T", "E", "X", "_", "I", "N", "L", "I", "N", "E",
                 "_", "C", "L", "O", "S", "E">>

ImgMatchEnd(s, i) ==
    IF LitAt(s, i, ImgOpenLit, FALSE)
    THEN LET j == RunEnd(s, i + Len(ImgOpenLit), {c \in {s[n] : n \in 1..Len(s)} : c # BackTick})
         IN  IF LitAt(s, j, ImgMidLit, FALSE)
             THEN LET b == j + Len(ImgMidLit)
                      \* [^)]+ is greedy: the last closing literal before the first ")"
                      lim == RunEnd(s, b, {c \in {s[n] : n \in 1..Len(s)} : c # ")"})
                      ends == {k \in (b + 1)..lim :
                                  /\ LitAt(s, k, ImgCloseLit, FALSE)
                                  /\ k + Len(ImgCloseLit) - 1 < lim}
                  IN  IF ends = {} THEN 0
                      ELSE (CHOOSE k \in ends : \A m \in ends : k >= m)
                               + Len(ImgCloseLit) - 1
             ELSE 0
    ELSE 0

\* (\w)-\n(\w)  ->  \1\2
HyphenMatchEnd(s, i) ==
    IF /\ i + 3 <= Len(s)
       /\ s[i] \in WordChars
       /\ s[i + 1] = "-"
       /\ s[i + 2] = "\n"
       /\ s[i + 3] \in WordChars
    THEN i + 3
    ELSE 0

\* [ \t]+  ->  " "
BlankMatchEnd(s, i) ==
    IF s[i] \in {" ", "\t"} THEN RunEnd(s, i, {" ", "\t"}) - 1 ELSE 0

\* \r -> ""
CrMatchEnd(s, i) == IF s[i] = "\r" THEN i ELSE 0

\* \n{3,}  ->  \n\n
NewlinesMatchEnd(s, i) ==
    IF s[i] = "\n"
    THEN LET j == RunEnd(s, i, {"\n"}) IN IF j - i >= 3 THEN j - 1 ELSE 0
    ELSE 0

\* \s+  ->  " "
SpacesMatchEnd(s, i) ==
    IF s[i] \in WhiteSpace THEN RunEnd(s, i, WhiteSpace) - 1 ELSE 0

\* DIVIDER_PATTERN  \s*-*DIVIDER-*\s*  with re.I
DividerLit == <<"D", "I", "V", "I", "D", "E", "R">>

DividerMatchEnd(s, i) ==
    LET j == RunEnd(s, RunEnd(s, i, WhiteSpace), {"-"})
    IN  IF LitAt(s, j, DividerLit, TRUE)
        THEN RunEnd(s, RunEnd(s, j + Len(DividerLit), {"-"}), WhiteSpace) - 1
        ELSE 0

\* the literal --DIVIDER--
DashedDividerLit == <<"-", "-">> \o DividerLit \o <<"-", "-">>

DashedDividerMatchEnd(s, i) ==
    IF LitAt(s, i, DashedDividerLit, FALSE) THEN i + Len(DashedDividerLit) - 1 ELSE 0

\* the canonical token "\nDIVIDER\n"
DividerToken == NL \o DividerLit \o NL

\* \n?DIVIDER\n?  (the pattern of re.split)
SplitMatchEnd(s, i) ==
    LET j == IF s[i] = "\n" THEN i + 1 ELSE i
    IN  IF LitAt(s, j, DividerLit, FALSE)
        THEN LET k == j + Len(DividerLit)
             IN  IF k <= Len(s) /\ s[k] = "\n" THEN k ELSE k - 1
        ELSE 0

\* ^\s*#{1,6}\s+(.+)$  with re.M, tried at position i: <<e, g>>, the last
\* position of the match and the first position of group 1; <<0, 0>> when
\* there is no match at i.  "^" holds at the start and after each "\n";
\* \s* and \s+ also run over line breaks; "." is any character but "\n".
HeadingMatchAt(s, i) ==
    IF ~(i = 1 \/ s[i - 1] = "\n") THEN <<0, 0>>
    ELSE LET j == RunEnd(s, i, WhiteSpace)
             h == RunEnd(s, j, {"#"})
             m == RunEnd(s, h, WhiteSpace)
             \* \s+ gives characters back when the greedy run leaves (.+) nothing
             back == {k \in (h + 1)..Len(s) : s[k] # "\n"}
             g == IF m <= Len(s) THEN m
                  ELSE IF back = {} THEN 0
                  ELSE CHOOSE k \in back : \A n \in back : k >= n
         IN  IF h - j >= 1 /\ h - j <= 6 /\ m > h /\ g > 0
             THEN <<RunEnd(s, g, {c \in {s[n] : n \in 1..Len(s)} : c # "\n"}) - 1, g>>
             ELSE <<0, 0>>

\* re.search of the heading pattern: <<i, e, g>> of the leftmost match,
\* <<0, 0, 0>> when there is none
HeadingSearch(s) ==
    LET hits == {i \in 1..Len(s) : HeadingMatchAt(s, i)[1] > 0}
    IN  IF hits = {} THEN <<0, 0, 0>>
        ELSE LET i == CHOOSE k \in hits : \A n \in hits : k <= n
             IN  <<i>> \o HeadingMatchAt(s, i)

(***************************************************************************)
(* re.sub / str.replace                                                    *)
(***************************************************************************)
\* MatchEnd(pat, s, i): the last position of the match of pattern pat that
\* starts at i, 0 when there is none
MatchEnd(pat, s, i) ==
    CASE pat = "br"       -> BrMatchEnd(s, i)
      [] pat = "brclose"  -> BrCloseMatchEnd(s, i)
      [] pat = "rule"     -> RuleMatchEnd(s, i)
      [] pat = "info"     -> InfoMatchEnd(s, i)
      [] pat = "colons"   -> ColonsMatchEnd(s, i)
      [] pat = "image"    -> ImgMatchEnd(s, i)
      [] pat = "hyphen"   -> HyphenMatchEnd(s, i)
      [] pat = "blank"    -> BlankMatchEnd(s, i)
      [] pat = "cr"       -> CrMatchEnd(s, i)
      [] pat = "newlines" -> NewlinesMatchEnd(s, i)
      [] pat = "spaces"   -> SpacesMatchEnd(s, i)
      [] pat = "divider"  -> DividerMatchEnd(s, i)
      [] pat = "dashed"   -> DashedDividerMatchEnd(s, i)

\* the replacement of the match s[i..e] of pattern pat
Repl(pat, s, i, e) ==
    CASE pat \in {"br", "brclose", "rule", "colons"} -> NL
      [] pat \in {"info", "image", "cr"}              -> <<>>
      [] pat = "hyphen"                               -> <<s[i], s[e]>>
      [] pat \in {"blank", "spaces"}                  -> <<" ">>
      [] pat = "newlines"                             -> <<"\n", "\n">>
      [] pat \in {"divider", "dashed"}                -> DividerToken

\* leftmost non-overlapping matches; scanning resumes after each match
RECURSIVE ReSubFrom(_, _, _)
ReSubFrom(pat, s, i) ==
    IF i > Len(s) THEN <<>>
    ELSE IF MatchEnd(pat, s, i) >= i
         THEN Repl(pat, s, i, MatchEnd(pat, s, i)) \o ReSubFrom(pat, s, MatchEnd(pat, s, i) + 1)
         ELSE <<s[i]>> \o ReSubFrom(pat, s, i + 1)

ReSub(pat, s) == ReSubFrom(pat, s, 1)

\* the substitutions of pats made one after the other
RECURSIVE ReSubAll(_, _)
ReSubAll(pats, s) ==
    IF pats = <<>> THEN s ELSE ReSubAll(Tail(pats), ReSub(Head(pats), s))

normalize_breaks(text) == ReSubAll(<<"br", "brclose", "rule">>, text)

strip_admonitions(text) == ReSubAll(<<"info", "colons">>, text)

strip_md_images(text) == ReSub("image", text)

basic_clean(text) ==
    IF text = <<>> THEN <<>>
    ELSE Strip(ReSubAll(<<"hyphen", "blank", "cr", "newlines">>,
                        strip_md_images(strip_admonitions(normalize_breaks(text)))))

normalize_dividers(text) == ReSub("dashed", ReSub("divider", text))

\* re.split(r"\n?DIVIDER\n?", text): the pieces between the matches
RECURSIVE ReSplitFrom(_, _)
ReSplitFrom(s, i) ==
    IF i > Len(s) THEN << <<>> >>
    ELSE LET e == SplitMatchEnd(s, i)
         IN  IF e >= i THEN << <<>> >> \o ReSplitFrom(s, e + 1)
             ELSE LET r == ReSplitFrom(s, i + 1)
                  IN  << <<s[i]>> \o r[1] >> \o Tail(r)

ReSplit(s) == ReSplitFrom(s, 1)

NonBlank(p) == Strip(p) # <<>>

\* parts = [p.strip() for p in re.split(...) if p and p.strip()]
SplitParts(md) ==
    LET kept == SelectSeq(ReSplit(normalize_dividers(md)), NonBlank)
    IN  [k \in 1..Len(kept) |-> Strip(kept[k])]

\* str(n) for a natural number
RECURSIVE Decimal(_)
Decimal(n) ==
    LET d == <<"0", "1", "2", "3", "4", "5", "6", "7", "8", "9">>[(n % 10) + 1]
    IN  IF n < 10 THEN <<d>> ELSE Decimal(n \div 10) \o <<d>>

\* f"Section {i+1}" for the part at 1-based position k
DefaultTitle(k) == <<"S", "e", "c", "t", "i", "o", "n", " ">> \o Decimal(k)

\* the minimum word count of a section
MinSegmentWords == 5

\* if len(content.split()) < 5: continue; else sections.append(...)
SectionIfLong(section_title, content) ==
    IF WordCount(content) < MinSegmentWords THEN <<>>
    ELSE << [title |-> section_title, content |-> content] >>

\* the title and the content of a part, m being the heading match
\* <<first, last, first of group 1>> or <<0, 0, 0>>
SegmentMatched(part, k, m) ==
    SectionIfLong(IF m[1] > 0 THEN Strip(Slice(part, m[3], m[2])) ELSE DefaultTitle(k),
                  basic_clean(IF m[1] > 0
                              THEN Slice(part, 1, m[1] - 1) \o Slice(part, m[2] + 1, Len(part))
                              ELSE part))

\* one iteration of the loop over parts: the (title, content) pair of the
\* part at position k, or <<>> when the section is skipped
SegmentPart(part, k) == SegmentMatched(part, k, HeadingSearch(part))

segment_by_divider_and_headings(md) ==
    IF md = <<>> THEN <<>>
    ELSE LET ps == SplitParts(md)
         IN  Flatten([k \in 1..Len(ps) |-> SegmentPart(ps[k], k)])

normalize_for_dedup(text) == Strip(ReSub("spaces", Lower(text)))

(***************************************************************************)
(* Python values: None, strings, integers, lists; a dict is a function     *)
(* from its keys                                                           *)
(***************************************************************************)
None == [none |-> TRUE]

Str(chars) == [str |-> chars]

IntVal(n) == [int |-> n]

List(items) == [list |-> items]

EmptyStr == Str(<<>>)

\* bool(v)
Truthy(v) == v \notin {None, EmptyStr, IntVal(0), List(<<>>)}

\* a or b
Or(a, b) == IF Truthy(a) THEN a ELSE b

\* d.get(k)
Get(d, k) == IF k \in DOMAIN d THEN d[k] ELSE None

(***************************************************************************)
(* ingest/extractors.py                                                    *)
(***************************************************************************)
\* A pattern is \b, one of several alternative item sequences, \b.  An item
\* is a character class (matched on the lower-cased character, for re.I)
\* taken once, optionally (min 0) or repeatedly (many); every repetition is
\* followed by a disjoint class, so the greedy match is the match.  With
\* group, the last item of the sequence is the pattern's capturing group.
Lit(chars) == [k \in 1..Len(chars) |-> [cls |-> {chars[k]}, min |-> 1, many |-> FALSE]]

Opt(cls) == << [cls |-> cls, min |-> 0, many |-> FALSE] >>

Plus(cls) == << [cls |-> cls, min |-> 1, many |-> TRUE] >>

Word(chars) == [alts |-> <<Lit(chars)>>, group |-> FALSE]

\* word(s)?
WordS(chars) == [alts |-> <<Lit(chars) \o Opt({"s"})>>, group |-> TRUE]

DashOrSpace == {"-"} \cup WhiteSpace

MODEL_PATTERNS ==
    << WordS(<<"a", "u", "t", "o", "-", "e", "n", "c", "o", "d", "e", "r">>),
       WordS(<<"c", "o", "n", "v", "o", "l", "u", "t", "i", "o", "n", "a", "l", " ", "a", "u", "t", "o", "e", "n", "c", "o", "d", "e", "r">>),
       WordS(<<"t", "r", "a", "n", "s", "f", "o", "r", "m", "e", "r">>),
       Word(<<"b", "e", "r", "t">>),
       \* gpt[-\s]?\d+(?:\.\d+)?
       [alts |-> << Lit(<<"g", "p", "t">>) \o Opt(DashOrSpace) \o Plus(DigitChars)
                       \o Lit(<<".">>) \o Plus(DigitChars),
                   Lit(<<"g", "p", "t">>) \o Opt(DashOrSpace) \o Plus(DigitChars) >>,
        group |-> FALSE],
       Word(<<"m", "i", "s", "t", "r", "a", "l">>),
       \* llama\s?\d+
       [alts |-> << Lit(<<"l", "l", "a", "m", "a">>) \o Opt(WhiteSpace) \o Plus(DigitChars) >>, group |-> FALSE] >>

TOOL_PATTERNS ==
    << Word(<<"p", "y", "t", "o", "r", "c", "h">>),
       Word(<<"t", "e", "n", "s", "o", "r", "f", "l", "o", "w">>),
       Word(<<"k", "e", "r", "a", "s">>),
       \* scikit[-\s]?learn
       [alts |-> << Lit(<<"s", "c", "i", "k", "i", "t">>) \o Opt(DashOrSpace) \o Lit(<<"l", "e", "a", "r", "n">>) >>, group |-> FALSE],
       Word(<<"h", "u", "g", "g", "i", "n", "g", "f", "a", "c", "e">>),
       Word(<<"n", "u", "m", "p", "y">>),
       Word(<<"m", "a", "t", "p", "l", "o", "t", "l", "i", "b">>) >>

DATASET_PATTERNS ==
    << Word(<<"m", "n", "i", "s", "t">>),
       \* cifar-?10
       [alts |-> << Lit(<<"c", "i", "f", "a", "r">>) \o Opt({"-"}) \o Lit(<<"1", "0">>) >>, group |-> FALSE],
       Word(<<"i", "m", "a", "g", "e", "n", "e", "t">>) >>

METRIC_PATTERNS ==
    << Word(<<"m", "s", "e">>),
       Word(<<"m", "e", "a", "n", " ", "s", "q", "u", "a", "r", "e", "d", " ", "e", "r", "r", "o", "r">>) >>

\* the first position >= p whose lower-cased character is not in cls
FoldedRunEnd(s, p, cls) ==
    IF \A j \in p..Len(s) : LowerChar(s[j]) \in cls THEN Len(s) + 1
    ELSE CHOOSE j \in p..Len(s) :
             /\ LowerChar(s[j]) \notin cls
             /\ \A n \in p..(j - 1) : LowerChar(s[n]) \in cls

\* the position after the greedy match of one item at p, given the end of
\* the run of its class
ItemEnd(item, p, run) == IF item.many THEN run ELSE IF run > p THEN p + 1 ELSE p

\* the position after the match of items[k..] at p, 0 when they do not match
RECURSIVE ItemsEnd(_, _, _, _)
ItemsEnd(items, k, s, p) ==
    IF k > Len(items) THEN p
    ELSE IF ItemEnd(items[k], p, FoldedRunEnd(s, p, items[k].cls)) - p < items[k].min THEN 0
    ELSE ItemsEnd(items, k + 1, s, ItemEnd(items[k], p, FoldedRunEnd(s, p, items[k].cls)))

\* \b at position p: exactly one of s[p-1], s[p] is a word character
Boundary(s, p) ==
    (p > 1 /\ p - 1 <= Len(s) /\ s[p - 1] \in WordChars)
        # (p >= 1 /\ p <= Len(s) /\ s[p] \in WordChars)

\* the alternatives of pat that match at i, \b on both sides
MatchingAlts(pat, s, i) ==
    {a \in 1..Len(pat.alts) :
        /\ Boundary(s, i)
        /\ ItemsEnd(pat.alts[a], 1, s, i) > 0
        /\ Boundary(s, ItemsEnd(pat.alts[a], 1, s, i))}

\* the position after the match of pat at i (of its first matching
\* alternative), 0 when there is none
PatternEnd(pat, s, i) ==
    IF MatchingAlts(pat, s, i) = {} THEN 0
    ELSE ItemsEnd(pat.alts[CHOOSE a \in MatchingAlts(pat, s, i) :
                              \A b \in MatchingAlts(pat, s, i) : a <= b], 1, s, i)

\* what re.findall returns for the match s[i..e-1] of pat: the text of the
\* capturing group when the pattern has one ("" when the group took no
\* part), else the whole match
FoundText(pat, s, i, e) ==
    IF pat.group THEN Slice(s, i + Len(pat.alts[1]) - 1, e - 1)
    ELSE Slice(s, i, e - 1)

\* re.findall(p, text, flags=re.I): leftmost non-overlapping matches
RECURSIVE FindAllFrom(_, _, _)
FindAllFrom(pat, s, i) ==
    IF i > Len(s) THEN <<>>
    ELSE IF PatternEnd(pat, s, i) > 0
         THEN <<FoundText(pat, s, i, PatternEnd(pat, s, i))>>
                  \o FindAllFrom(pat, s, PatternEnd(pat, s, i))
         ELSE FindAllFrom(pat, s, i + 1)

\* the code points of the characters the results hold, in increasing order
CodePointOrder ==
    <<"\t", "\n", "\f", "\r", " ", "-", ".",
      "0", "1", "2", "3", "4", "5", "6", "7", "8", "9">> \o UpperCase \o <<"_">> \o LowerCase

CodePoint(c) == CHOOSE k \in 1..Len(CodePointOrder) : CodePointOrder[k] = c

\* a <= b for str
RECURSIVE StrLeq(_, _)
StrLeq(a, b) ==
    IF a = <<>> THEN TRUE
    ELSE IF b = <<>> THEN FALSE
    ELSE IF Head(a) = Head(b) THEN StrLeq(Tail(a), Tail(b))
    ELSE CodePoint(Head(a)) < CodePoint(Head(b))

\* sorted(S) for a set of str
RECURSIVE Sorted(_)
Sorted(S) ==
    IF S = {} THEN <<>>
    ELSE LET least == CHOOSE x \in S : \A y \in S : StrLeq(x, y)
         IN  <<least>> \o Sorted(S \ {least})

SeqRange(q) == {q[k] : k \in 1..Len(q)}

\* sorted({m.lower() for p in patterns for m in re.findall(p, text, flags=re.I)})
find_all(patterns, text) ==
    Sorted(UNION {{Lower(m) : m \in SeqRange(FindAllFrom(patterns[k], text, 1))}
                     : k \in 1..Len(patterns)})

\* the window of snippet()
SnippetWindow == 800

\* the positions >= i where the literal occurs, case folded
OccurrencesFrom(s, i, lit) == {p \in i..Len(s) : LitAt(s, p, lit, TRUE)}

\* (.{0,window}first|middle|last.{0,window}) tried at position i, re.I|re.S:
\* the position after the match, 0 when no alternative matches there.  The
\* leading window belongs to the first alternative alone and the trailing
\* window to the last one.
SnippetEndAt(s, i, first, middle, last) ==
    IF \E p \in OccurrencesFrom(s, i, first) : p - i <= SnippetWindow
    THEN (CHOOSE p \in OccurrencesFrom(s, i, first) :
             /\ p - i <= SnippetWindow
             /\ \A q \in OccurrencesFrom(s, i, first) : q - i <= SnippetWindow => q <= p)
         + Len(first)
    ELSE IF middle # <<>> /\ LitAt(s, i, middle, TRUE) THEN i + Len(middle)
    ELSE IF LitAt(s, i, last, TRUE)
         THEN (IF i + Len(last) + SnippetWindow > Len(s) + 1 THEN Len(s) + 1
               ELSE i + Len(last) + SnippetWindow)
    ELSE 0

\* snippet(keyword): the leftmost match, stripped, "" when there is none
Snippet(s, first, middle, last) ==
    IF \A i \in 1..Len(s) : SnippetEndAt(s, i, first, middle, last) = 0 THEN <<>>
    ELSE Strip(Slice(s,
                     CHOOSE i \in 1..Len(s) :
                         /\ SnippetEndAt(s, i, first, middle, last) > 0
                         /\ \A j \in 1..(i - 1) : SnippetEndAt(s, j, first, middle, last) = 0,
                     SnippetEndAt(s,
                         CHOOSE i \in 1..Len(s) :
                             /\ SnippetEndAt(s, i, first, middle, last) > 0
                             /\ \A j \in 1..(i - 1) : SnippetEndAt(s, j, first, middle, last) = 0,
                         first, middle, last) - 1))

\* text is None or a str; lower = text or ""
extract_publication_fields(text) ==
    [ models_used |-> find_all(MODEL_PATTERNS, IF text = None THEN <<>> ELSE text.str),
      tools_used |-> find_all(TOOL_PATTERNS, IF text = None THEN <<>> ELSE text.str),
      datasets_used |-> find_all(DATASET_PATTERNS, IF text = None THEN <<>> ELSE text.str),
      metrics_mentioned |-> find_all(METRIC_PATTERNS, IF text = None THEN <<>> ELSE text.str),
      models_snippet |-> Snippet(IF text = None THEN <<>> ELSE text.str,
                                 <<"a", "u", "t", "o", "-", "e", "n", "c", "o", "d", "e", "r">>, <<"a", "u", "t", "o", "e", "n", "c", "o", "d", "e", "r">>, <<"c", "o", "n", "v", "o", "l", "u", "t", "i", "o", "n", "a", "l">>),
      metrics_snippet |-> Snippet(IF text = None THEN <<>> ELSE text.str,
                                  <<"m", "s", "e">>, <<>>, <<"m", "e", "a", "n", " ", "s", "q", "u", "a", "r", "e", "d", " ", "e", "r", "r", "o", "r">>) ]

(***************************************************************************)
(* ingest/loaders.py: load_publications_from_json                          *)
(***************************************************************************)
Dict(d) == [dict |-> d]

IsStr(v) == DOMAIN v = {"str"}

IsList(v) == DOMAIN v = {"list"}

IsDict(v) == DOMAIN v = {"dict"}

\* {**a, **b}
Merge(a, b) == [k \in DOMAIN a \cup DOMAIN b |-> IF k \in DOMAIN b THEN b[k] ELSE a[k]]

\* str(v); the text of a list or a dict is kept as the value it prints
PyStr(v) ==
    IF IsStr(v) THEN v
    ELSE IF DOMAIN v = {"int"} THEN Str(Decimal(v.int))
    ELSE IF v = None THEN Str(<<"N", "o", "n", "e">>)
    ELSE [repr |-> v]

\* hashlib.sha256(s.encode("utf-8")).hexdigest()[:16] of the serialized
\* record: a value determined by the record that is no value of a record
hash_id(rec) == [sha256 |-> rec]

\* the names of the dicts of x that have one
RECURSIVE Names(_)
Names(x) ==
    IF x = <<>> THEN <<>>
    ELSE (IF Truthy(Get(Head(x).dict, "name")) THEN <<Get(Head(x).dict, "name")>> ELSE <<>>)
             \o Names(Tail(x))

ensure_list(x) ==
    IF x = None THEN <<>>
    ELSE IF IsList(x)
         THEN IF x.list # <<>> /\ IsDict(x.list[1]) /\ "name" \in DOMAIN x.list[1].dict
              THEN Names(x.list)
              ELSE [k \in 1..Len(x.list) |-> PyStr(x.list[k])]
    ELSE <<PyStr(x)>>

DEFAULT_FIELD_MAP ==
    [ id |-> <<"id", "paper_id", "uuid">>,
      username |-> <<"username", "author", "owner">>,
      title |-> <<"title", "name">>,
      authors |-> <<"authors", "author_list", "creators">>,
      date |-> <<"date", "published_at", "publication_date", "year">>,
      url |-> <<"url", "source_url", "link">>,
      license |-> <<"license">>,
      description |-> <<"publication_description", "description">>,
      abstract |-> <<"abstract", "summary">>,
      body |-> <<"body", "content", "full_text", "text">>,
      sections |-> <<"sections", "section_list">>,
      section_title |-> <<"heading", "title", "name">>,
      section_text |-> <<"text", "content", "body">>,
      models_used |-> <<"models_used", "models">>,
      tools_used |-> <<"tools_used", "tools">>,
      limitations |-> <<"limitations">>,
      assumptions |-> <<"assumptions">> ]

\* a value of the override: one key, or a list of keys
Key(k) == [key |-> k]

Keys(ks) == [keys |-> ks]

\* v if isinstance(v, list) else [v]
AsKeyList(v) == IF DOMAIN v = {"keys"} THEN v.keys ELSE <<v.key>>

\* fmap: user_map.get(k, defaults) for every field of DEFAULT_FIELD_MAP
FieldMapOf(fm) ==
    [k \in DOMAIN DEFAULT_FIELD_MAP |->
        IF fm # None /\ k \in DOMAIN fm THEN AsKeyList(fm[k]) ELSE DEFAULT_FIELD_MAP[k]]

NotNone(v) == v # None

\* d[k] not in (None, "", [])
NotEmpty(v) == v \notin {None, EmptyStr, List(<<>>)}

RECURSIVE get_first(_, _, _)
get_first(d, keys, default) ==
    IF keys = <<>> THEN default
    ELSE IF Head(keys) \in DOMAIN d /\ NotEmpty(d[Head(keys)]) THEN d[Head(keys)]
    ELSE get_first(d, Tail(keys), default)

Untitled == Str(<<"U", "n", "t", "i", "t", "l", "e", "d">>)

Unknown == Str(<<"u", "n", "k", "n", "o", "w", "n">>)

\* what the iteration resolves from the record; id is the left operand of
\* the or of pub_id, authors the argument of _ensure_list
ResolveRecord(rec, fmap) ==
    [ id |-> get_first(rec, fmap.id, None),
      title |-> get_first(rec, fmap.title, Untitled),
      authors |-> get_first(rec, fmap.authors, None),
      username |-> get_first(rec, fmap.username, None),
      date |-> get_first(rec, fmap.date, None),
      url |-> get_first(rec, fmap.url, None),
      license |-> get_first(rec, fmap.license, Unknown),
      description |-> get_first(rec, fmap.description, None),
      abstract |-> get_first(rec, fmap.abstract, None),
      body |-> get_first(rec, fmap.body, None),
      sections |-> get_first(rec, fmap.sections, List(<<>>)) ]

\* the input_path of the call
InputPath == Str(<<"p", "u", "b", "s", ".", "j", "s", "o", "n">>)

\* if not authors and username: authors = [str(username)]
AuthorsOf(authors, username) ==
    IF authors = <<>> /\ Truthy(username) THEN <<PyStr(username)>> ELSE authors

base_meta(rec, r) ==
    [ publication_id |-> Or(r.id, hash_id(rec)),
      title |-> r.title,
      authors |-> List(AuthorsOf(ensure_list(r.authors), r.username)),
      date |-> r.date,
      source |-> InputPath,
      source_url |-> r.url,
      source_type |-> Str(<<"j", "s", "o", "n">>),
      doc_type |-> Str(<<"p", "u", "b", "l", "i", "c", "a", "t", "i", "o", "n">>),
      license |-> r.license,
      username |-> r.username ]

Document(content, meta) == [page_content |-> content, metadata |-> meta]

\* the branch of the if / elif / else over the content sources
ContentPathNoStrip(r) ==
    IF IsStr(r.description) /\ r.description.str # <<>> THEN "description"
    ELSE IF IsList(r.sections) /\ r.sections.list # <<>> THEN "sections"
    ELSE "fallback"

ContentPath(r) ==
    IF IsStr(r.description) /\ Strip(r.description.str) # <<>> THEN "description"
    ELSE IF IsList(r.sections) /\ r.sections.list # <<>> THEN "sections"
    ELSE "fallback"

\* one Document per section of the segmented description
DescriptionDocs(parsed, meta) ==
    [k \in 1..Len(parsed) |->
        Document(parsed[k].content, Merge(meta, [section |-> Str(parsed[k].title)]))]

\* the Document of a section, content being the cleaned sec_text
SectionDoc(sec_title, content, meta) ==
    IF WordCount(content) < MinSegmentWords THEN <<>>
    ELSE <<Document(content, Merge(meta, [section |-> sec_title]))>>

SectionTitleDefault == Str(<<"S", "e", "c", "t", "i", "o", "n">>)

RECURSIVE SectionsDocs(_, _, _)
SectionsDocs(secs, fmap, meta) ==
    IF secs = <<>> THEN <<>>
    ELSE (IF ~Truthy(get_first(Head(secs).dict, fmap.section_text, None)) THEN <<>>
          ELSE SectionDoc(get_first(Head(secs).dict, fmap.section_title, SectionTitleDefault),
                          basic_clean(get_first(Head(secs).dict, fmap.section_text, None).str),
                          meta))
             \o SectionsDocs(Tail(secs), fmap, meta)

FallbackDocs(r, meta) ==
    (IF Truthy(r.abstract)
     THEN <<Document(basic_clean(r.abstract.str), Merge(meta, [section |-> Str(<<"A", "b", "s", "t", "r", "a", "c", "t">>)]))>>
     ELSE <<>>)
    \o (IF Truthy(r.body)
        THEN <<Document(basic_clean(r.body.str), Merge(meta, [section |-> Str(<<"B", "o", "d", "y">>)]))>>
        ELSE <<>>)

\* section_docs of the record on the given branch
PathDocs(path, r, fmap, meta) ==
    IF path = "description"
    THEN DescriptionDocs(segment_by_divider_and_headings(r.description.str),
                         Merge(meta, extract_publication_fields(r.description)))
    ELSE IF path = "sections" THEN SectionsDocs(r.sections.list, fmap, meta)
    ELSE FallbackDocs(r, meta)

\* section_docs of one iteration of the loop over the records
section_docs(rec, r, fmap) == PathDocs(ContentPath(r), r, fmap, base_meta(rec, r))

(***************************************************************************)
(* ingest/loaders.py: load_docs_from_urls                                  *)
(***************************************************************************)
\* [u.strip() for u in f if u.strip() and not u.strip().startswith("#")]
IsUrlLine(line) == Strip(line) # <<>> /\ Strip(line)[1] # "#"

RECURSIVE UrlsOf(_)
UrlsOf(lines) ==
    IF lines = <<>> THEN <<>>
    ELSE (IF IsUrlLine(Head(lines)) THEN <<Strip(Head(lines))>> ELSE <<>>)
             \o UrlsOf(Tail(lines))

\* url.split("/")[-1]: the text after the last "/"
LastSegment(url) ==
    LET slashes == {i \in 1..Len(url) : url[i] = "/"}
    IN  IF slashes = {} THEN url
        ELSE Slice(url, (CHOOSE i \in slashes : \A k \in slashes : i >= k) + 1, Len(url))

\* .replace("-", " ")
DashToSpace(s) == [i \in 1..Len(s) |-> IF s[i] = "-" THEN " " ELSE s[i]]

Letters == {UpperCase[i] : i \in 1..26} \cup {LowerCase[i] : i \in 1..26}

UpperChar(c) ==
    IF \E i \in 1..26 : LowerCase[i] = c
    THEN UpperCase[CHOOSE i \in 1..26 : LowerCase[i] = c]
    ELSE c

\* str.title: a letter that follows no letter is upper-cased, every other
\* letter is lower-cased
TitleCase(s) ==
    [i \in 1..Len(s) |->
        IF i = 1 \/ s[i - 1] \notin Letters THEN UpperChar(s[i]) ELSE LowerChar(s[i])]

UrlTitle(url) == TitleCase(DashToSpace(LastSegment(url)))

WebMeta(url) ==
    [ source_url |-> Str(url),
      title |-> Str(UrlTitle(url)),
      source_type |-> Str(<<"w", "e", "b">>) ]

\* one entry of the record of the calls made: a request (fetch_url or
\* requests.get) for urls[i], or a time.sleep
Call(op, i) == [op |-> op, i |-> i]

(***************************************************************************)
(* ingest/build_index.py: deduplicate_docs                                 *)
(***************************************************************************)
\* DedupKey without the text normalization
DedupKeyRawText(d) ==
    << d.page_content,
       Or(Get(d.metadata, "publication_id"),
          Or(Get(d.metadata, "source"),
             Or(Get(d.metadata, "source_url"), EmptyStr))) >>

\* key = (normalize_for_dedup(d.page_content),
\*        d.metadata.get("publication_id") or d.metadata.get("source")
\*        or d.metadata.get("source_url") or "")
DedupKey(d) ==
    << normalize_for_dedup(d.page_content),
       Or(Get(d.metadata, "publication_id"),
          Or(Get(d.metadata, "source"),
             Or(Get(d.metadata, "source_url"), EmptyStr))) >>

\* one iteration of the loop: <<seen, out>> after the document d
DedupStep(sn, ot, d) ==
    IF DedupKey(d) \in sn THEN <<sn, ot>>
    ELSE <<sn \cup {DedupKey(d)}, Append(ot, d)>>

RECURSIVE DedupLoop(_, _, _)
DedupLoop(sn, ot, ds) ==
    IF ds = <<>> THEN ot
    ELSE LET r == DedupStep(sn, ot, Head(ds)) IN DedupLoop(r[1], r[2], Tail(ds))

deduplicate_docs(ds) == DedupLoop({}, <<>>, ds)

(***************************************************************************)
(* basic_clean applied once and again to its own result                    *)
(***************************************************************************)
MaxCleanPieces == 4

\* the markdown image ![a](u)
MdImage == <<"!", "[", "a", "]", "(", "u", ")">>

CleanPieces ==
    { <<"a">>, <<"-">>, <<"\n">>, <<"\r">>, <<"\r", "\n">>, <<" ">>,
      <<"-", "-", "-">>, <<":", ":", ":">>, <<"<", "b", "r", ">">>, MdImage }

\* a text that the pattern of strip_md_images matches after its first
\* character
SourcePatternText ==
    <<"a">> \o ImgOpenLit \o <<"x">> \o ImgMidLit \o <<"u">> \o ImgCloseLit

RECURSIVE PieceSeqs(_, _)
PieceSeqs(pieces, n) ==
    IF n = 0 THEN {<<>>}
    ELSE LET shorter == PieceSeqs(pieces, n - 1)
         IN  shorter \cup {Append(q, p) : q \in shorter, p \in pieces}

CleanIdle ==
    /\ cleanIn = <<>>
    /\ cleanOnce = <<>>
    /\ cleanTwice = <<>>
    /\ cleanPc = 0

SegIdle ==
    /\ markdown = <<>>
    /\ parts = <<>>
    /\ segI = 0
    /\ sections = <<>>
    /\ segPc = "idle"

DedupIdle ==
    /\ docs = <<>>
    /\ seen = {}
    /\ out = <<>>
    /\ dedupI = 0
    /\ dedupPc = "idle"

IterIdle ==
    /\ isDir = FALSE
    /\ files = <<>>
    /\ fileI = 0
    /\ lineI = 0
    /\ yielded = <<>>
    /\ iterPc = "idle"

ExIdle ==
    /\ exText = None
    /\ exFields = None
    /\ exPc = "idle"

LoadIdle ==
    /\ field_map = None
    /\ recs = <<>>
    /\ recI = 0
    /\ resolved = None
    /\ loadDocs = <<>>
    /\ loadPc = "idle"

BuildIdle ==
    /\ dataset = ""
    /\ save_chunks = FALSE
    /\ buildDocs = <<>>
    /\ chunks = <<>>
    /\ vs = None
    /\ indexFile = None
    /\ metaFile = None
    /\ buildPc = "idle"

UrlIdle ==
    /\ urlLines = <<>>
    /\ urls = <<>>
    /\ urlI = 0
    /\ downloaded = None
    /\ extracted = None
    /\ urlDocs = <<>>
    /\ urlLog = <<>>
    /\ urlPc = "idle"

OthersIdle == ExIdle /\ LoadIdle /\ BuildIdle /\ UrlIdle

CleanInit ==
    /\ OthersIdle
    /\ IterIdle
    /\ SegIdle
    /\ DedupIdle
    /\ cleanIn \in {Flatten(q) : q \in PieceSeqs(CleanPieces, MaxCleanPieces)}
                      \cup {SourcePatternText}
    /\ cleanOnce = <<>>
    /\ cleanTwice = <<>>
    /\ cleanPc = 0

CleanFirst ==
    /\ cleanPc = 0
    /\ cleanOnce' = basic_clean(cleanIn)
    /\ cleanPc' = 1
    /\ UNCHANGED <<cleanIn, cleanTwice, segVars, dedupVars, iterVars, otherVars>>

CleanAgain ==
    /\ cleanPc = 1
    /\ cleanTwice' = basic_clean(cleanOnce)
    /\ cleanPc' = 2
    /\ UNCHANGED <<cleanIn, cleanOnce, segVars, dedupVars, iterVars, otherVars>>

CleanNext == CleanFirst \/ CleanAgain

SpecClean == CleanInit /\ [][CleanNext]_vars

\* C4: basic_clean is idempotent: cleaning a cleaned text changes nothing
C4_Idempotent == cleanPc = 2 => cleanTwice = cleanOnce

\* the last position of the markdown image ![alt](url) that starts at i of
\* s (alt without "]", url without ")"), 0 when none starts there
MdImageEnd(s, i) ==
    IF LitAt(s, i, <<"!", "[">>, FALSE)
    THEN LET j == RunEnd(s, i + 2, {c \in {s[n] : n \in 1..Len(s)} : c # "]"})
         IN  IF LitAt(s, j, <<"]", "(">>, FALSE)
             THEN LET k == RunEnd(s, j + 2, {c \in {s[n] : n \in 1..Len(s)} : c # ")"})
                  IN  IF k <= Len(s) THEN k ELSE 0
             ELSE 0
    ELSE 0

\* the images of s, each as its text
MdImagesOf(s) ==
    {Slice(s, i, MdImageEnd(s, i)) : i \in {n \in 1..Len(s) : MdImageEnd(s, n) > 0}}

\* t is a substring of s
Occurs(t, s) == \E i \in 1..Len(s) : LitAt(s, i, t, FALSE)

\* C12: basic_clean removes every markdown image of its input, alt text and
\* url included: no image of the input occurs in the result
C12_ImagesRemoved ==
    cleanPc >= 1 => \A t \in MdImagesOf(cleanIn) : ~Occurs(t, cleanOnce)

\* C12, what is removed: the text that the pattern held by strip_md_images
\* matches
C12_SourcePatternRemoved ==
    (cleanPc >= 1 /\ cleanIn = SourcePatternText) => cleanOnce = <<"a">>

\* C12, the least input: the image alone is returned as it was given
C12_ImageKept ==
    (cleanPc >= 1 /\ cleanIn = MdImage) => cleanOnce = MdImage

(***************************************************************************)
(* segment_by_divider_and_headings, one loop iteration per step            *)
(***************************************************************************)
MaxSegPieces == 5

FiveWords == <<"a", " ", "a", " ", "a", " ", "a", " ", "a">>

SegPieces ==
    { <<"#">>, <<" ">>, <<"\n">>, <<"T">>, <<"-">>, FiveWords, DividerLit }

\* "# Title A\nfoo bar baz one two\nDIVIDER\n# Title B\nalpha beta gamma delta epsilon"
SegExample ==
    <<"#", " ", "T", "i", "t", "l", "e", " ", "A", "\n",
      "f", "o", "o", " ", "b", "a", "r", " ", "b", "a", "z", " ", "o", "n", "e", " ", "t", "w", "o", "\n",
      "D", "I", "V", "I", "D", "E", "R", "\n",
      "#", " ", "T", "i", "t", "l", "e", " ", "B", "\n",
      "a", "l", "p", "h", "a", " ", "b", "e", "t", "a", " ", "g", "a", "m", "m", "a", " ",
      "d", "e", "l", "t", "a", " ", "e", "p", "s", "i", "l", "o", "n">>

SegInit ==
    /\ OthersIdle
    /\ IterIdle
    /\ CleanIdle
    /\ DedupIdle
    /\ markdown \in {Flatten(q) : q \in PieceSeqs(SegPieces, MaxSegPieces)} \cup {SegExample}
    /\ parts = <<>>
    /\ segI = 0
    /\ sections = <<>>
    /\ segPc = "start"

\* if not markdown: return []
SegReturnEmpty ==
    /\ segPc = "start"
    /\ markdown = <<>>
    /\ segPc' = "done"
    /\ UNCHANGED <<markdown, parts, segI, sections, cleanVars, dedupVars, iterVars, otherVars>>

\* normalize_dividers, re.split, the filter of blank parts
SegSplit ==
    /\ segPc = "start"
    /\ markdown # <<>>
    /\ parts' = SplitParts(markdown)
    /\ segI' = 0
    /\ segPc' = "loop"
    /\ UNCHANGED <<markdown, sections, cleanVars, dedupVars, iterVars, otherVars>>

\* for i, part in enumerate(parts): ...
SegLoop ==
    /\ segPc = "loop"
    /\ segI < Len(parts)
    /\ sections' = sections \o SegmentPart(parts[segI + 1], segI + 1)
    /\ segI' = segI + 1
    /\ UNCHANGED <<markdown, parts, segPc, cleanVars, dedupVars, iterVars, otherVars>>

\* return sections
SegReturn ==
    /\ segPc = "loop"
    /\ segI = Len(parts)
    /\ segPc' = "done"
    /\ UNCHANGED <<markdown, parts, segI, sections, cleanVars, dedupVars, iterVars, otherVars>>

SegNext == SegReturnEmpty \/ SegSplit \/ SegLoop \/ SegReturn

SpecSegment == SegInit /\ [][SegNext]_vars

\* The lines of a text: <<first, last>> positions of each line, in order
RECURSIVE LineSpansFrom(_, _)
LineSpansFrom(s, i) ==
    IF i > Len(s) + 1 THEN <<>>
    ELSE IF i = 1 \/ s[i - 1] = "\n"
         THEN << <<i, RunEnd(s, i, {c \in {s[n] : n \in 1..Len(s)} : c # "\n"}) - 1>> >>
                  \o LineSpansFrom(s, i + 1)
         ELSE LineSpansFrom(s, i + 1)

LineSpans(s) == LineSpansFrom(s, 1)

\* A markdown heading line: optional indentation, one to six "#", white
\* space, and text, all on the line s[a..b]
IsHeadingLine(s, a, b) ==
    LET j == RunEnd(s, a, WhiteSpace)
        h == RunEnd(s, j, {"#"})
        m == RunEnd(s, h, WhiteSpace)
    IN  /\ h - j >= 1
        /\ h - j <= 6
        /\ m > h
        /\ m <= b

\* The section the claim gives the part at position k: the first heading
\* line's trailing text as title and the cleaned part without that line, or
\* the title "Section k" and the cleaned part
ExpectedSection(part, k) ==
    LET spans == LineSpans(part)
        heads == {n \in 1..Len(spans) : IsHeadingLine(part, spans[n][1], spans[n][2])}
        first == CHOOSE n \in heads : \A o \in heads : n <= o
        a == spans[first][1]
        b == spans[first][2]
        title == IF heads = {} THEN DefaultTitle(k)
                 ELSE Strip(Slice(part, RunEnd(part, RunEnd(part, a, WhiteSpace), {"#"}), b))
        content == IF heads = {} THEN basic_clean(part)
                   ELSE basic_clean(Slice(part, 1, a - 1) \o Slice(part, b + 1, Len(part)))
    IN  IF WordCount(content) < MinSegmentWords THEN <<>>
        ELSE << [title |-> title, content |-> content] >>

ExpectedSections(md) ==
    LET ps == SplitParts(md)
    IN  Flatten([k \in 1..Len(ps) |-> ExpectedSection(ps[k], k)])

\* C9: each part with a heading line yields a section titled by its first
\* heading, the content being the cleaned part without that line; a part
\* without a heading is titled "Section k"; sections keep the parts' order
C9_SectionsFromHeadings ==
    segPc = "done" => sections = ExpectedSections(markdown)

\* C9: the example of two divided parts yields the sections "Title A" and
\* "Title B"
C9_Example ==
    (segPc = "done" /\ markdown = SegExample) =>
        /\ Len(sections) = 2
        /\ sections[1].title = <<"T", "i", "t", "l", "e", " ", "A">>
        /\ sections[2].title = <<"T", "i", "t", "l", "e", " ", "B">>

(***************************************************************************)
(* deduplicate_docs, one loop iteration per step                           *)
(***************************************************************************)
MaxDocs == 3

DocTexts ==
    { <<"a", " ", "b">>, <<"A", " ", " ", "b", "\n">>, <<"a", "b">> }

IdP == Str(<<"p">>)

IdQ == Str(<<"q">>)

\* The metadata the loaders give: JSON records carry publication_id, source
\* and source_url (None without a url), files carry source, web and
\* encyclopedia pages carry source_url
DocMetadata ==
    { [publication_id |-> IdP, source |-> IdQ, source_url |-> None],
      [publication_id |-> IdQ, source |-> IdQ, source_url |-> IdP],
      [source |-> IdP],
      [source_url |-> IdP],
      [title |-> IdP] }

Documents == [page_content : DocTexts, metadata : DocMetadata]

RECURSIVE SeqsUpTo(_, _)
SeqsUpTo(S, n) ==
    IF n = 0 THEN {<<>>}
    ELSE LET shorter == SeqsUpTo(S, n - 1)
         IN  shorter \cup {Append(q, x) : q \in shorter, x \in S}

DedupInit ==
    /\ OthersIdle
    /\ IterIdle
    /\ CleanIdle
    /\ SegIdle
    /\ docs \in SeqsUpTo(Documents, MaxDocs)
    /\ seen = {}
    /\ out = <<>>
    /\ dedupI = 0
    /\ dedupPc = "loop"

\* if key in seen: continue
DedupSkip ==
    /\ dedupPc = "loop"
    /\ dedupI < Len(docs)
    /\ DedupKey(docs[dedupI + 1]) \in seen
    /\ LET r == DedupStep(seen, out, docs[dedupI + 1])
       IN  seen' = r[1] /\ out' = r[2]
    /\ dedupI' = dedupI + 1
    /\ UNCHANGED <<docs, dedupPc, cleanVars, segVars, iterVars, otherVars>>

\* seen.add(key); out.append(d)
DedupKeep ==
    /\ dedupPc = "loop"
    /\ dedupI < Len(docs)
    /\ DedupKey(docs[dedupI + 1]) \notin seen
    /\ LET r == DedupStep(seen, out, docs[dedupI + 1])
       IN  seen' = r[1] /\ out' = r[2]
    /\ dedupI' = dedupI + 1
    /\ UNCHANGED <<docs, dedupPc, cleanVars, segVars, iterVars, otherVars>>

\* return out
DedupReturn ==
    /\ dedupPc = "loop"
    /\ dedupI = Len(docs)
    /\ dedupPc' = "done"
    /\ UNCHANGED <<docs, seen, out, dedupI, cleanVars, segVars, iterVars, otherVars>>

DedupNext == DedupSkip \/ DedupKeep \/ DedupReturn

SpecDedup == DedupInit /\ [][DedupNext]_vars

\* The pair the claim compares: the normalized text and the first of
\* publication_id, source, source_url that the metadata holds, else ""
IdentityKey(md) ==
    LET has(k) == k \in DOMAIN md /\ md[k] # None
    IN  IF has("publication_id") THEN md["publication_id"]
        ELSE IF has("source") THEN md["source"]
        ELSE IF has("source_url") THEN md["source_url"]
        ELSE EmptyStr

Fingerprint(d) == <<normalize_for_dedup(d.page_content), IdentityKey(d.metadata)>>

\* the positions of the first document of each fingerprint
FirstPositions(ds) ==
    {i \in 1..Len(ds) : \A j \in 1..(i - 1) : Fingerprint(ds[j]) # Fingerprint(ds[i])}

RECURSIVE Restrict(_, _, _)
Restrict(ds, keep, i) ==
    IF i > Len(ds) THEN <<>>
    ELSE (IF i \in keep THEN <<ds[i]>> ELSE <<>>) \o Restrict(ds, keep, i + 1)

\* C1: deduplicate_docs returns the subsequence of the first document of
\* each (normalized text, identity key) pair, in input order, so no two
\* returned documents share a pair
C1_DedupFirstOccurrence ==
    dedupPc = "done" =>
        /\ out = Restrict(docs, FirstPositions(docs), 1)
        /\ \A i, j \in 1..Len(out) : i # j => Fingerprint(out[i]) # Fingerprint(out[j])

\* a run that dropped a later duplicate whose raw text differs from the
\* retained document's, and kept an equal text under another identity key
C1_Witness ==
    /\ dedupPc = "done"
    /\ Len(docs) = 3
    /\ Len(out) = 2
    /\ docs[1].page_content # docs[2].page_content
    /\ DedupKey(docs[1]) = DedupKey(docs[2])
    /\ docs[3].page_content = docs[1].page_content
    /\ out = <<docs[1], docs[3]>>

(***************************************************************************)
(* SpecExtract: extract_publication_fields on None and on bounded texts    *)
(***************************************************************************)
MaxExtractPieces == 3

ExtractPieces ==
    { <<"P", "y", "T", "o", "r", "c", "h">>,
      <<"T", "r", "a", "n", "s", "f", "o", "r", "m", "e", "r">>,
      <<"t", "r", "a", "n", "s", "f", "o", "r", "m", "e", "r", "s">>,
      <<"M", "N", "I", "S", "T">>,
      <<"M", "S", "E">>,
      <<"G", "P", "T", "-", "4">>,
      <<"m", "e", "a", "n", " ", "s", "q", "u", "a", "r", "e", "d", " ", "e", "r", "r", "o", "r">>,
      <<" ">>,
      <<"x">> }

ExtractExample ==
    <<"W", "e", " ", "u", "s", "e", "d", " ", "P", "y", "T", "o", "r", "c", "h", " ", "a", "n", "d", " ", "a", " ", "T", "r", "a", "n", "s", "f", "o", "r", "m", "e", "r", " ", "m", "o", "d", "e", "l", ",", " ", "t", "r", "a", "i", "n", "e", "d", " ", "o", "n", " ", "M", "N", "I", "S", "T", ",", " ", "a", "c", "h", "i", "e", "v", "i", "n", "g", " ", "M", "S", "E", " ", "o", "f", " ", "0", ".", "0", "2">>

ExtractInit ==
    /\ CleanIdle
    /\ SegIdle
    /\ DedupIdle
    /\ IterIdle
    /\ LoadIdle
    /\ BuildIdle
    /\ UrlIdle
    /\ exText \in {None, Str(ExtractExample)}
                  \cup {Str(Flatten(q)) : q \in PieceSeqs(ExtractPieces, MaxExtractPieces)}
    /\ exFields = None
    /\ exPc = "call"

Extract ==
    /\ exPc = "call"
    /\ exFields' = extract_publication_fields(exText)
    /\ exPc' = "return"
    /\ UNCHANGED <<exText, cleanVars, segVars, dedupVars, iterVars, loadVars, buildVars, urlVars>>

ExtractNext == Extract

SpecExtract == ExtractInit /\ [][ExtractNext]_vars

\* the whole texts matched by pat in s, leftmost and non-overlapping
RECURSIVE MatchedTermsFrom(_, _, _)
MatchedTermsFrom(pat, s, i) ==
    IF i > Len(s) THEN {}
    ELSE IF PatternEnd(pat, s, i) > 0
         THEN {Lower(Slice(s, i, PatternEnd(pat, s, i) - 1))}
                  \cup MatchedTermsFrom(pat, s, PatternEnd(pat, s, i))
         ELSE MatchedTermsFrom(pat, s, i + 1)

ExpectedTerms(patterns, text) ==
    Sorted(UNION {MatchedTermsFrom(patterns[k], IF text = None THEN <<>> ELSE text.str, 1)
                     : k \in 1..Len(patterns)})

\* C5: each of the four lists returned by extract_publication_fields is the
\* deduplicated, lexically sorted list of the lower-cased vocabulary terms
\* matched in the text.
C5_ListsAreMatchedTerms ==
    exPc = "return" =>
        /\ exFields.models_used = ExpectedTerms(MODEL_PATTERNS, exText)
        /\ exFields.tools_used = ExpectedTerms(TOOL_PATTERNS, exText)
        /\ exFields.datasets_used = ExpectedTerms(DATASET_PATTERNS, exText)
        /\ exFields.metrics_mentioned = ExpectedTerms(METRIC_PATTERNS, exText)

\* the same lists hold in all fields but models_used
C5_OtherLists ==
    exPc = "return" =>
        /\ exFields.tools_used = ExpectedTerms(TOOL_PATTERNS, exText)
        /\ exFields.datasets_used = ExpectedTerms(DATASET_PATTERNS, exText)
        /\ exFields.metrics_mentioned = ExpectedTerms(METRIC_PATTERNS, exText)

\* the example of the specification returns models_used = [""]
C5_ExampleModels ==
    (exPc = "return" /\ exText = Str(ExtractExample)) =>
        /\ exFields.models_used = << <<>> >>
        /\ exFields.tools_used = << <<"p", "y", "t", "o", "r", "c", "h">> >>
        /\ exFields.datasets_used = << <<"m", "n", "i", "s", "t">> >>
        /\ exFields.metrics_mentioned = << <<"m", "s", "e">> >>

(***************************************************************************)
(* SpecLoad: load_publications_from_json over the records of its input,    *)
(* one iteration of the loop per step                                      *)
(***************************************************************************)
MaxRecs == 2

NoFields == [k \in {} |-> None]

\* a record with or without the key k
Optional(k, values) == {NoFields} \cup {[x \in {k} |-> v] : v \in values}

GoodDescription == Str(<<"#", " ", "T", "\n", "M", "S", "E", " ", "b", " ", "c", " ", "d", " ", "e">>)

ShortDescription == Str(<<"a", " ", "b">>)

BlankDescription == Str(<<" ", " ">>)

SixWords == Str(<<"a", " ", "b", " ", "c", " ", "d", " ", "e", " ", "f">>)

TooShort == Str(<<"t", "o", "o", " ", "s", "h", "o", "r", "t">>)

SomeSections ==
    List(<< Dict([heading |-> Str(<<"H">>), text |-> SixWords]),
            Dict([text |-> TooShort]),
            Dict([name |-> Str(<<"N">>), text |-> EmptyStr, content |-> SixWords]),
            Dict([heading |-> Str(<<"H">>)]) >>)

IdX1 == Str(<<"x", "1">>)

IdX2 == Str(<<"x", "2">>)

MyPaper == Str(<<"M", "y", " ", "P", "a", "p", "e", "r">>)

\* the example of the specification
ExampleRecord == [paper_id |-> IdX1, name |-> MyPaper]

Ann == Str(<<"A", "n", "n">>)

IdentityRecords ==
    { NoFields,
      ExampleRecord,
      [id |-> IntVal(0), title |-> EmptyStr, name |-> MyPaper, license |-> Str(<<"m", "i", "t">>)],
      [id |-> EmptyStr, paper_id |-> IdX2, uuid |-> IdX1, authors |-> List(<<Ann, IntVal(7)>>)],
      [id |-> IdX1, paper_id |-> IdX2, author |-> Ann, url |-> None, link |-> Str(<<"l">>)],
      [id |-> None, title |-> List(<<>>), year |-> IntVal(7),
       authors |-> List(<<Dict([name |-> Ann]), Dict([name |-> EmptyStr])>>)] }

ContentRecords ==
    { Merge(Merge(d, c), a) :
        d \in Optional("description", {GoodDescription, ShortDescription, BlankDescription}),
        c \in Optional("sections", {SomeSections}),
        a \in Optional("abstract", {TooShort}) }
    \cup { [summary |-> SixWords, content |-> SixWords],
           [body |-> TooShort],
           [abstract |-> BlankDescription],
           [sections |-> List(<<>>), abstract |-> SixWords],
           [description |-> IntVal(7), abstract |-> SixWords] }

Records ==
    {Merge(i, [abstract |-> SixWords]) : i \in IdentityRecords}
        \cup {Merge(ExampleRecord, c) : c \in ContentRecords}

\* the records of the longest inputs
CoreRecords ==
    { Merge(ExampleRecord, [abstract |-> SixWords]),
      Merge(ExampleRecord, [description |-> BlankDescription, abstract |-> TooShort]),
      Merge(ExampleRecord, [description |-> GoodDescription, sections |-> SomeSections,
                            abstract |-> TooShort]),
      Merge(ExampleRecord, [sections |-> SomeSections, abstract |-> TooShort]),
      Merge(ExampleRecord, [body |-> TooShort]),
      [id |-> EmptyStr, paper_id |-> IdX2, uuid |-> IdX1, abstract |-> SixWords,
       authors |-> List(<<Ann, IntVal(7)>>)] }

FieldMaps ==
    { None,
      [title |-> Key("name")],
      [id |-> Keys(<<"id", "uuid">>), abstract |-> Keys(<<>>)] }

LoadInit ==
    /\ CleanIdle
    /\ SegIdle
    /\ DedupIdle
    /\ IterIdle
    /\ ExIdle
    /\ BuildIdle
    /\ UrlIdle
    /\ field_map \in FieldMaps
    /\ recs \in SeqsUpTo(Records, MaxRecs - 1) \cup SeqsUpTo(CoreRecords, MaxRecs)
    /\ recI = 0
    /\ resolved = None
    /\ loadDocs = <<>>
    /\ loadPc = "loop"

\* one iteration of the loop over the records, on the given branch
LoadRecord(rec, r, fmap, path) ==
    /\ ContentPath(r) = path
    /\ resolved' = r
    /\ loadDocs' = loadDocs \o section_docs(rec, r, fmap)
    /\ recI' = recI + 1
    /\ UNCHANGED <<field_map, recs, loadPc>>
    /\ UNCHANGED <<cleanVars, segVars, dedupVars, iterVars, exVars, buildVars, urlVars>>

LoadStep(path) ==
    /\ loadPc = "loop"
    /\ recI < Len(recs)
    /\ \E fmap \in {FieldMapOf(field_map)} :
          \E r \in {ResolveRecord(recs[recI + 1], fmap)} :
              LoadRecord(recs[recI + 1], r, fmap, path)

LoadDescription == LoadStep("description")

LoadSections == LoadStep("sections")

LoadFallback == LoadStep("fallback")

LoadReturn ==
    /\ loadPc = "loop"
    /\ recI = Len(recs)
    /\ loadPc' = "return"
    /\ UNCHANGED <<field_map, recs, recI, resolved, loadDocs>>
    /\ UNCHANGED <<cleanVars, segVars, dedupVars, iterVars, exVars, buildVars, urlVars>>

LoadNext == LoadDescription \/ LoadSections \/ LoadFallback \/ LoadReturn

SpecLoad == LoadInit /\ [][LoadNext]_vars

\* what the k-th record resolves to
ResolvedAt(k) == ResolveRecord(recs[k], FieldMapOf(field_map))

\* C3: every Document returned by load_publications_from_json, on each of
\* the three content paths, has text that is non-empty after cleaning and
\* has at least 5 words.
C3_DocumentsHaveFiveWords ==
    \A k \in 1..Len(loadDocs) :
        /\ loadDocs[k].page_content # <<>>
        /\ WordCount(loadDocs[k].page_content) >= 5

\* the same holds when no record took the abstract/body fallback
C3_SegmentedAndSections ==
    (\A k \in 1..recI : ContentPath(ResolvedAt(k)) # "fallback") => C3_DocumentsHaveFiveWords

\* the Documents of the records 1..n, the k-th record taking the path
\* paths[k]
DocumentsOnPaths(paths, n) ==
    Flatten([k \in 1..n |->
                PathDocs(paths[k], ResolvedAt(k), FieldMapOf(field_map),
                         base_meta(recs[k], ResolvedAt(k)))])

\* the path named by the claim: description when it resolves to a non-empty
\* string, else sections when it resolves to a non-empty sequence, else the
\* fallback
PathNonEmpty(r) ==
    IF IsStr(r.description) /\ Len(r.description.str) > 0 THEN "description"
    ELSE IF IsList(r.sections) /\ Len(r.sections.list) > 0 THEN "sections"
    ELSE "fallback"

\* the same with a description that is non-empty after stripping whitespace
PathNonBlank(r) ==
    IF IsStr(r.description) /\ (\E i \in 1..Len(r.description.str) :
                                    r.description.str[i] \notin WhiteSpace)
    THEN "description"
    ELSE IF IsList(r.sections) /\ Len(r.sections.list) > 0 THEN "sections"
    ELSE "fallback"

\* C6 (as stated): for every record exactly one content path is taken: the
\* description's when description resolves to a non-empty string, else the
\* sections' when sections resolves to a non-empty sequence, else the
\* abstract/body fallback; all Documents of the record come from that path.
C6_OnePathNonEmpty ==
    loadDocs = DocumentsOnPaths([k \in 1..recI |-> PathNonEmpty(ResolvedAt(k))], recI)

\* C6 (amended): the description's path is taken when description resolves
\* to a string that is non-empty after stripping whitespace; a description
\* of whitespace alone is passed over for sections, then abstract/body.
C6_OnePathNonBlank ==
    loadDocs = DocumentsOnPaths([k \in 1..recI |-> PathNonBlank(ResolvedAt(k))], recI)

\* a record whose description is whitespace alone has given its 'Abstract'
\* Document, and a record with a description, sections and an abstract has
\* given the Documents of its description alone
C6_Witness ==
    /\ loadPc = "return"
    /\ Len(recs) = 2
    /\ field_map = None
    /\ ResolvedAt(1).description = BlankDescription
    /\ ResolvedAt(1).abstract = TooShort
    /\ ResolvedAt(2).description = GoodDescription
    /\ ResolvedAt(2).sections = SomeSections
    /\ ResolvedAt(2).abstract = TooShort
    /\ Len(loadDocs) = 2
    /\ loadDocs[1].metadata.section = Str(<<"A", "b", "s", "t", "r", "a", "c", "t">>)
    /\ loadDocs[2].metadata.section = Str(<<"T">>)
    /\ "models_used" \in DOMAIN loadDocs[2].metadata

\* the key list of a field as the claim gives it
ClaimedKeys(f) ==
    IF field_map # None /\ f \in DOMAIN field_map
    THEN (IF "keys" \in DOMAIN field_map[f] THEN field_map[f].keys ELSE <<field_map[f].key>>)
    ELSE DEFAULT_FIELD_MAP[f]

ClaimedDefault(f) ==
    IF f = "title" THEN Untitled
    ELSE IF f = "license" THEN Unknown
    ELSE IF f = "sections" THEN List(<<>>)
    ELSE None

\* the positions of keys whose value in rec is present and not None, "", []
Usable(rec, keys) ==
    {i \in 1..Len(keys) :
        keys[i] \in DOMAIN rec /\ rec[keys[i]] # None /\ rec[keys[i]] # EmptyStr
            /\ rec[keys[i]] # List(<<>>)}

ClaimedValue(rec, keys, default) ==
    IF Usable(rec, keys) = {} THEN default
    ELSE rec[keys[CHOOSE i \in Usable(rec, keys) : \A j \in Usable(rec, keys) : i <= j]]

\* C7: for every record and every canonical field, the resolved value is the
\* value of the first key of the field's key list whose value is present and
\* not None, "" or [], else the field's default; the key list is the
\* override's when the override names the field, the built-in one
\* otherwise.  The example record resolves id "x1" and title "My Paper".
C7_FirstNonEmptyKey ==
    recI > 0 =>
        /\ \A f \in DOMAIN resolved :
              resolved[f] = ClaimedValue(recs[recI], ClaimedKeys(f), ClaimedDefault(f))
        /\ (field_map = None /\ recs[recI] = Merge(ExampleRecord, [abstract |-> SixWords]))
              => (resolved.id = IdX1 /\ resolved.title = MyPaper)

\* under an override that replaces the key list of id, a record whose id is
\* "" resolves to its uuid, past the paper_id the built-in list would take
C7_Witness ==
    /\ recI > 0
    /\ field_map # None
    /\ "id" \in DOMAIN field_map
    /\ {"id", "paper_id"} \subseteq DOMAIN recs[recI]
    /\ recs[recI].id = EmptyStr
    /\ resolved.id = IdX1
    /\ resolved.abstract = None
    /\ resolved.title = Untitled

(***************************************************************************)
(* SpecBuild: the build command, one numbered stage of it per step         *)
(***************************************************************************)
MaxBuildDocs == 2

\* the word count a chunk must exceed
MinChunkWords == 30

\* a text of n words
RECURSIVE WordsText(_)
WordsText(n) ==
    IF n = 0 THEN <<>>
    ELSE IF n = 1 THEN <<"w">>
    ELSE WordsText(n - 1) \o <<" ", "w">>

\* the word counts of the documents the loaders return
DocWords == {MinChunkWords + 1, MinChunkWords + 2}

BuildDocuments ==
    {Document(WordsText(n), [source |-> src]) : n \in DocWords, src \in {IdP, IdQ}}

\* The chunks RecursiveCharacterTextSplitter may cut a document of n words
\* into, as their word counts: the document whole, or two pieces
ChunkWords(n) ==
    {<<n>>} \cup {<<k, n - k>> : k \in {1, MinChunkWords - 1, MinChunkWords, MinChunkWords + 1}
                                         \cap 1..(n - 1)}

\* splitter.split_documents(docs): the chunks of each document in turn,
\* each with the metadata of its document
RECURSIVE split_documents(_)
split_documents(ds) ==
    IF ds = <<>> THEN {<<>>}
    ELSE {[k \in 1..Len(ws) |-> Document(WordsText(ws[k]), Head(ds).metadata)] \o rest :
             ws \in ChunkWords(WordCount(Head(ds).page_content)),
             rest \in split_documents(Tail(ds))}

KeepChunkAtLeast(c) == WordCount(c.page_content) >= MinChunkWords

\* len(c.page_content.split()) > 30
KeepChunk(c) == WordCount(c.page_content) > MinChunkWords

PersistAlways(flag) == TRUE

\* if save_chunks:
PersistWanted(flag) == flag

\* a file left by an earlier run
OldFile == [old |-> TRUE]

BuildInit ==
    /\ CleanIdle
    /\ SegIdle
    /\ DedupIdle
    /\ IterIdle
    /\ ExIdle
    /\ LoadIdle
    /\ UrlIdle
    /\ dataset \in {"publications", "docs", "wikipedia", "other"}
    /\ save_chunks \in BOOLEAN
    /\ buildDocs = <<>>
    /\ chunks = <<>>
    /\ vs = None
    /\ indexFile \in {None, OldFile}
    /\ metaFile \in {None, OldFile}
    /\ buildPc = "load"

BuildUnchanged == UNCHANGED <<cleanVars, segVars, dedupVars, iterVars, exVars, loadVars, urlVars>>

\* 1) Load: the documents of the loader of the dataset
BuildLoad ==
    /\ buildPc = "load"
    /\ dataset \in {"publications", "docs", "wikipedia"}
    /\ buildDocs' \in SeqsUpTo(BuildDocuments, MaxBuildDocs)
    /\ buildPc' = "deduplicate"
    /\ UNCHANGED <<dataset, save_chunks, chunks, vs, indexFile, metaFile>>
    /\ BuildUnchanged

\* raise typer.BadParameter
BuildBadParameter ==
    /\ buildPc = "load"
    /\ dataset \notin {"publications", "docs", "wikipedia"}
    /\ buildPc' = "raised"
    /\ UNCHANGED <<dataset, save_chunks, buildDocs, chunks, vs, indexFile, metaFile>>
    /\ BuildUnchanged

\* 2) Deduplicate
BuildDeduplicate ==
    /\ buildPc = "deduplicate"
    /\ buildDocs' = deduplicate_docs(buildDocs)
    /\ buildPc' = "chunk"
    /\ UNCHANGED <<dataset, save_chunks, chunks, vs, indexFile, metaFile>>
    /\ BuildUnchanged

\* 3) Chunk: split, then keep the chunks of more than 30 words
BuildChunk ==
    /\ buildPc = "chunk"
    /\ \E split \in split_documents(buildDocs) : chunks' = SelectSeq(split, KeepChunk)
    /\ buildPc' = "index"
    /\ UNCHANGED <<dataset, save_chunks, buildDocs, vs, indexFile, metaFile>>
    /\ BuildUnchanged

\* 4) Embed + index: vs = FAISS.from_documents(chunks, embedder)
BuildIndex ==
    /\ buildPc = "index"
    /\ vs' = [docs |-> chunks]
    /\ buildPc' = "save"
    /\ UNCHANGED <<dataset, save_chunks, buildDocs, chunks, indexFile, metaFile>>
    /\ BuildUnchanged

\* make_embeddings or FAISS.from_documents raises
BuildIndexRaises ==
    /\ buildPc = "index"
    /\ buildPc' = "raised"
    /\ UNCHANGED <<dataset, save_chunks, buildDocs, chunks, vs, indexFile, metaFile>>
    /\ BuildUnchanged

\* vs.save_local(out_dir)
BuildSave ==
    /\ buildPc = "save"
    /\ indexFile' = [index |-> vs.docs]
    /\ buildPc' = "saved"
    /\ UNCHANGED <<dataset, save_chunks, buildDocs, chunks, vs, metaFile>>
    /\ BuildUnchanged

\* vs.save_local raises
BuildSaveRaises ==
    /\ buildPc = "save"
    /\ buildPc' = "raised"
    /\ UNCHANGED <<dataset, save_chunks, buildDocs, chunks, vs, indexFile, metaFile>>
    /\ BuildUnchanged

\* 5) save_chunks is false: nothing more is written
BuildNoPersist ==
    /\ buildPc = "saved"
    /\ ~PersistWanted(save_chunks)
    /\ buildPc' = "complete"
    /\ UNCHANGED <<dataset, save_chunks, buildDocs, chunks, vs, indexFile, metaFile>>
    /\ BuildUnchanged

\* persist_metadata: open(outpath, "w") leaves an empty file
BuildPersistOpen ==
    /\ buildPc = "saved"
    /\ PersistWanted(save_chunks)
    /\ metaFile' = [lines |-> <<>>]
    /\ buildPc' = "persist"
    /\ UNCHANGED <<dataset, save_chunks, buildDocs, chunks, vs, indexFile>>
    /\ BuildUnchanged

\* persist_metadata: f.write of the record of the next chunk
BuildPersistWrite ==
    /\ buildPc = "persist"
    /\ Len(metaFile.lines) < Len(chunks)
    /\ metaFile' = [lines |-> Append(metaFile.lines,
                                     [text |-> chunks[Len(metaFile.lines) + 1].page_content,
                                      metadata |-> chunks[Len(metaFile.lines) + 1].metadata])]
    /\ UNCHANGED <<dataset, save_chunks, buildDocs, chunks, vs, indexFile, buildPc>>
    /\ BuildUnchanged

\* persist_metadata raises (os.makedirs, open or a write fails): the
\* exception leaves build, the file stays as far as it was written
BuildPersistRaises ==
    /\ buildPc \in {"saved", "persist"}
    /\ PersistWanted(save_chunks)
    /\ buildPc' = "persist raised"
    /\ UNCHANGED <<dataset, save_chunks, buildDocs, chunks, vs, indexFile, metaFile>>
    /\ BuildUnchanged

\* persist_metadata returns; logger.success
BuildComplete ==
    /\ buildPc = "persist"
    /\ Len(metaFile.lines) = Len(chunks)
    /\ buildPc' = "complete"
    /\ UNCHANGED <<dataset, save_chunks, buildDocs, chunks, vs, indexFile, metaFile>>
    /\ BuildUnchanged

BuildNext ==
    \/ BuildLoad
    \/ BuildBadParameter
    \/ BuildDeduplicate
    \/ BuildChunk
    \/ BuildIndex
    \/ BuildIndexRaises
    \/ BuildSave
    \/ BuildSaveRaises
    \/ BuildNoPersist
    \/ BuildPersistOpen
    \/ BuildPersistWrite
    \/ BuildPersistRaises
    \/ BuildComplete

SpecBuild == BuildInit /\ [][BuildNext]_vars

\* the chunks handed to the index builder, held by the saved index and
\* written to the chunk metadata file by this run
IndexedTexts ==
    (IF vs = None THEN {} ELSE {vs.docs[k].page_content : k \in 1..Len(vs.docs)})
        \cup (IF "index" \in DOMAIN indexFile
              THEN {indexFile.index[k].page_content : k \in 1..Len(indexFile.index)}
              ELSE {})

WrittenTexts ==
    IF "lines" \in DOMAIN metaFile
    THEN {metaFile.lines[k].text : k \in 1..Len(metaFile.lines)}
    ELSE {}

\* C8: every chunk that the build command passes to the index builder and
\* to the chunk metadata file has strictly more than 30 words.
C8_ChunksOverThirtyWords ==
    \A t \in IndexedTexts \cup WrittenTexts : WordCount(t) > 30

\* a document of 32 words was cut, its piece of 31 words was indexed and
\* written to the metadata file, its other piece was dropped
C8_Witness ==
    /\ buildPc = "complete"
    /\ Len(buildDocs) = 1
    /\ WordCount(buildDocs[1].page_content) = 32
    /\ IndexedTexts = {WordsText(31)}
    /\ WrittenTexts = {WordsText(31)}

\* whenever this run has opened or written the metadata file, or the
\* writing has failed, the saved index holds the chunks of this run; and
\* when save_chunks is false the metadata file is not written
MetadataOnlyAfterSave ==
    /\ ("lines" \in DOMAIN metaFile \/ buildPc \in {"persist", "persist raised"})
          => indexFile = [index |-> chunks]
    /\ ~save_chunks => "lines" \notin DOMAIN metaFile

\* C10: in every run of build the chunk metadata file is written only after
\* the index save has completed, so that a failure while writing it can
\* neither prevent nor undo the index build and save (once saved, the index
\* is left as it is by every later step); and when save_chunks is false no
\* metadata file is written.
C10_MetadataAfterIndexSave ==
    /\ []MetadataOnlyAfterSave
    /\ [][("index" \in DOMAIN indexFile) => indexFile' = indexFile]_vars

\* the writing of the metadata file has failed part way, and the index of
\* the run is saved
C10_Witness ==
    /\ buildPc = "persist raised"
    /\ save_chunks
    /\ Len(chunks) = 2
    /\ "lines" \in DOMAIN metaFile
    /\ Len(metaFile.lines) = 1
    /\ indexFile = [index |-> chunks]

(***************************************************************************)
(* ingest/loaders.py: _iter_json_records, one line or one file per step    *)
(***************************************************************************)
MaxFiles == 2

MaxLines == 3

\* A line of a .jsonl/.ndjson file: blank, malformed, or a JSON object
BlankLine == [blank |-> TRUE]

BadLine == [bad |-> TRUE]

RecLine(r) == [rec |-> r]

Lines == {BlankLine, BadLine, RecLine(1), RecLine(2)}

\* The content of a file read by json.load: malformed, an object, a list
\* (whose items are objects or not), or another value
BadJson == [bad |-> TRUE]

JsonContents ==
    { BadJson, [dict |-> 1], [scalar |-> 0], [list |-> <<>>],
      [list |-> <<RecLine(1), [scalar |-> 0], RecLine(2)>>] }

Files ==
    [ext : {"jsonl"}, content : {[lines |-> ls] : ls \in SeqsUpTo(Lines, MaxLines)}]
        \cup [ext : {"json", "txt"}, content : JsonContents]

IterInit ==
    /\ OthersIdle
    /\ CleanIdle
    /\ SegIdle
    /\ DedupIdle
    /\ isDir \in BOOLEAN
    /\ files \in (IF isDir THEN SeqsUpTo(Files, MaxFiles) ELSE {<<f>> : f \in Files})
    /\ fileI = IF isDir THEN 0 ELSE 1
    /\ lineI = 0
    /\ yielded = <<>>
    /\ iterPc = IF isDir THEN "walk"
               ELSE IF files[1].ext = "jsonl" THEN "lines" ELSE "load"

\* the records json.load's value yields: the objects of a list, or an object
JsonRecords(data) ==
    IF "list" \in DOMAIN data
    THEN LET IsObject(x) == "rec" \in DOMAIN x
             objs == SelectSeq(data.list, IsObject)
         IN  [k \in 1..Len(objs) |-> objs[k].rec]
    ELSE IF "dict" \in DOMAIN data THEN <<data.dict>>
    ELSE <<>>

IterUnchanged == UNCHANGED <<cleanVars, segVars, dedupVars, otherVars>>

\* for f in files (of os.walk): a .jsonl/.ndjson file is read line by line
IterWalkJsonl ==
    /\ iterPc = "walk"
    /\ fileI < Len(files)
    /\ files[fileI + 1].ext = "jsonl"
    /\ fileI' = fileI + 1
    /\ lineI' = 0
    /\ iterPc' = "lines"
    /\ UNCHANGED <<isDir, files, yielded>>
    /\ IterUnchanged

\* a .json file is loaded whole; any exception skips the file
IterWalkJson ==
    /\ iterPc = "walk"
    /\ fileI < Len(files)
    /\ files[fileI + 1].ext = "json"
    /\ fileI' = fileI + 1
    /\ yielded' = IF files[fileI + 1].content = BadJson THEN yielded
                  ELSE yielded \o JsonRecords(files[fileI + 1].content)
    /\ UNCHANGED <<isDir, files, lineI, iterPc>>
    /\ IterUnchanged

\* a file with another extension is passed over
IterWalkOther ==
    /\ iterPc = "walk"
    /\ fileI < Len(files)
    /\ files[fileI + 1].ext \notin {"jsonl", "json"}
    /\ fileI' = fileI + 1
    /\ UNCHANGED <<isDir, files, lineI, yielded, iterPc>>
    /\ IterUnchanged

\* the walk is over
IterWalkEnd ==
    /\ iterPc = "walk"
    /\ fileI = Len(files)
    /\ iterPc' = "done"
    /\ UNCHANGED <<isDir, files, fileI, lineI, yielded>>
    /\ IterUnchanged

\* for line in fh: a blank line is passed over
IterBlankLine ==
    /\ iterPc = "lines"
    /\ lineI < Len(files[fileI].content.lines)
    /\ files[fileI].content.lines[lineI + 1] = BlankLine
    /\ lineI' = lineI + 1
    /\ UNCHANGED <<isDir, files, fileI, yielded, iterPc>>
    /\ IterUnchanged

\* yield json.loads(line)
IterYieldLine ==
    /\ iterPc = "lines"
    /\ lineI < Len(files[fileI].content.lines)
    /\ "rec" \in DOMAIN files[fileI].content.lines[lineI + 1]
    /\ yielded' = Append(yielded, files[fileI].content.lines[lineI + 1].rec)
    /\ lineI' = lineI + 1
    /\ UNCHANGED <<isDir, files, fileI, iterPc>>
    /\ IterUnchanged

\* json.loads raises on a malformed line: inside the walk of a directory
\* the line's try/except passes it over
IterBadLineInDir ==
    /\ iterPc = "lines"
    /\ isDir
    /\ lineI < Len(files[fileI].content.lines)
    /\ files[fileI].content.lines[lineI + 1] = BadLine
    /\ lineI' = lineI + 1
    /\ UNCHANGED <<isDir, files, fileI, yielded, iterPc>>
    /\ IterUnchanged

\* ... and for a single file nothing catches it: the generator raises
IterBadLineInFile ==
    /\ iterPc = "lines"
    /\ ~isDir
    /\ lineI < Len(files[fileI].content.lines)
    /\ files[fileI].content.lines[lineI + 1] = BadLine
    /\ iterPc' = "raised"
    /\ UNCHANGED <<isDir, files, fileI, lineI, yielded>>
    /\ IterUnchanged

\* the end of the file: back to the walk, or the end of the generator
IterLinesEnd ==
    /\ iterPc = "lines"
    /\ lineI = Len(files[fileI].content.lines)
    /\ iterPc' = IF isDir THEN "walk" ELSE "done"
    /\ UNCHANGED <<isDir, files, fileI, lineI, yielded>>
    /\ IterUnchanged

\* a single file that is not .jsonl/.ndjson: json.load, uncaught
IterLoadFile ==
    /\ iterPc = "load"
    /\ IF files[1].content = BadJson
       THEN iterPc' = "raised" /\ UNCHANGED yielded
       ELSE iterPc' = "done" /\ yielded' = yielded \o JsonRecords(files[1].content)
    /\ UNCHANGED <<isDir, files, fileI, lineI>>
    /\ IterUnchanged

IterNext ==
    \/ IterWalkJsonl \/ IterWalkJson \/ IterWalkOther \/ IterWalkEnd
    \/ IterBlankLine \/ IterYieldLine \/ IterBadLineInDir \/ IterBadLineInFile
    \/ IterLinesEnd \/ IterLoadFile

SpecIter == IterInit /\ [][IterNext]_vars

\* the records of the valid lines of the one-object-per-line files, in order
ValidLineRecords(fs) ==
    LET IsRec(l) == "rec" \in DOMAIN l
        OfFile(f) == IF f.ext = "jsonl"
                     THEN LET ls == SelectSeq(f.content.lines, IsRec)
                          IN  [k \in 1..Len(ls) |-> ls[k].rec]
                     ELSE <<>>
    IN  Flatten([k \in 1..Len(fs) |-> OfFile(fs[k])])

OnlyLineFiles == \A k \in 1..Len(files) : files[k].ext = "jsonl"

\* C2: for a single one-object-per-line file and for a directory of such
\* files, the generator never raises and, once exhausted, has yielded the
\* records of all valid lines, those after a malformed line included
C2_MalformedLineSkipped ==
    (OnlyLineFiles /\ iterPc \in {"done", "raised"}) =>
        /\ iterPc = "done"
        /\ yielded = ValidLineRecords(files)

\* C2, the directory half alone: a malformed line inside a walked directory
\* is passed over and the later valid lines are yielded
C2_SkippedInDirectory ==
    (isDir /\ OnlyLineFiles /\ iterPc \in {"done", "raised"}) =>
        /\ iterPc = "done"
        /\ yielded = ValidLineRecords(files)

(***************************************************************************)
(* load_docs_from_urls, one call or one branch per step                    *)
(***************************************************************************)
MaxUrlLines == 3

\* the lines of urls_file: two URLs, a comment and a blank line
UrlFileLines ==
    { <<"h", "/", "a", "-", "b", "\n">>,
      <<" ", "x", "/", "\n">>,
      <<"#", "h", "/", "c", "\n">>,
      <<"\n">> }

Html == Str(<<"<", "p", ">">>)

\* what trafilatura.fetch_url can return
Downloads == {None, EmptyStr, Html}

\* what trafilatura.extract can return
Extractions == {None, EmptyStr, Str(<<" ", "\n">>), Str(<<"a", " ", " ", "b">>)}

\* what soup.get_text can return
PageTexts == {EmptyStr, Str(<<"\n">>), Str(<<"c">>)}

UrlInit ==
    /\ IterIdle
    /\ SegIdle
    /\ DedupIdle
    /\ CleanIdle
    /\ ExIdle
    /\ LoadIdle
    /\ BuildIdle
    /\ urlLines \in SeqsUpTo(UrlFileLines, MaxUrlLines)
    /\ urls = <<>>
    /\ urlI = 0
    /\ downloaded = None
    /\ extracted = None
    /\ urlDocs = <<>>
    /\ urlLog = <<>>
    /\ urlPc = "open"

UrlUnchanged == UNCHANGED <<cleanVars, segVars, dedupVars, iterVars, exVars, loadVars, buildVars>>

\* lines 194-196
UrlReadFile ==
    /\ urlPc = "open"
    /\ urls' = UrlsOf(urlLines)
    /\ urlPc' = "loop"
    /\ UNCHANGED <<urlLines, urlI, downloaded, extracted, urlDocs, urlLog>>
    /\ UrlUnchanged

\* line 197: the next url
UrlFor ==
    /\ urlPc = "loop"
    /\ urlI < Len(urls)
    /\ urlI' = urlI + 1
    /\ urlPc' = "fetch"
    /\ UNCHANGED <<urlLines, urls, downloaded, extracted, urlDocs, urlLog>>
    /\ UrlUnchanged

\* line 199
UrlFetch ==
    /\ urlPc = "fetch"
    /\ urlLog' = Append(urlLog, Call("fetch_url", urlI))
    /\ downloaded' \in Downloads
    /\ urlPc' = "downloaded"
    /\ UNCHANGED <<urlLines, urls, urlI, extracted, urlDocs>>
    /\ UrlUnchanged

\* line 199 raising: lines 213-214
UrlFetchRaises ==
    /\ urlPc = "fetch"
    /\ urlLog' = Append(urlLog, Call("fetch_url", urlI))
    /\ urlPc' = "loop"
    /\ UNCHANGED <<urlLines, urls, urlI, downloaded, extracted, urlDocs>>
    /\ UrlUnchanged

\* lines 200-201
UrlDownloadEmpty ==
    /\ urlPc = "downloaded"
    /\ ~Truthy(downloaded)
    /\ urlPc' = "loop"
    /\ UNCHANGED <<urlLines, urls, urlI, downloaded, extracted, urlDocs, urlLog>>
    /\ UrlUnchanged

\* line 202
UrlExtract ==
    /\ urlPc = "downloaded"
    /\ Truthy(downloaded)
    /\ \E x \in Extractions : extracted' = Or(x, EmptyStr)
    /\ urlPc' = "extracted"
    /\ UNCHANGED <<urlLines, urls, urlI, downloaded, urlDocs, urlLog>>
    /\ UrlUnchanged

\* line 202 raising: lines 213-214
UrlExtractRaises ==
    /\ urlPc = "downloaded"
    /\ Truthy(downloaded)
    /\ urlPc' = "loop"
    /\ UNCHANGED <<urlLines, urls, urlI, downloaded, extracted, urlDocs, urlLog>>
    /\ UrlUnchanged

\* lines 203-206: the second request for the same url
UrlFallback ==
    /\ urlPc = "extracted"
    /\ ~Truthy(extracted)
    /\ urlLog' = Append(urlLog, Call("requests.get", urlI))
    /\ extracted' \in PageTexts
    /\ urlPc' = "clean"
    /\ UNCHANGED <<urlLines, urls, urlI, downloaded, urlDocs>>
    /\ UrlUnchanged

\* lines 204-206 raising: lines 213-214
UrlFallbackRaises ==
    /\ urlPc = "extracted"
    /\ ~Truthy(extracted)
    /\ urlLog' = Append(urlLog, Call("requests.get", urlI))
    /\ urlPc' = "loop"
    /\ UNCHANGED <<urlLines, urls, urlI, downloaded, extracted, urlDocs>>
    /\ UrlUnchanged

\* line 203, the test failing
UrlNoFallback ==
    /\ urlPc = "extracted"
    /\ Truthy(extracted)
    /\ urlPc' = "clean"
    /\ UNCHANGED <<urlLines, urls, urlI, downloaded, extracted, urlDocs, urlLog>>
    /\ UrlUnchanged

\* lines 207-209
UrlContentEmpty ==
    /\ urlPc = "clean"
    /\ basic_clean(extracted.str) = <<>>
    /\ urlPc' = "loop"
    /\ UNCHANGED <<urlLines, urls, urlI, downloaded, extracted, urlDocs, urlLog>>
    /\ UrlUnchanged

\* lines 207-212
UrlAppend ==
    /\ urlPc = "clean"
    /\ basic_clean(extracted.str) # <<>>
    /\ urlDocs' = Append(urlDocs, Document(basic_clean(extracted.str), WebMeta(urls[urlI])))
    /\ urlPc' = "sleep"
    /\ UNCHANGED <<urlLines, urls, urlI, downloaded, extracted, urlLog>>
    /\ UrlUnchanged

\* line 215
UrlSleep ==
    /\ urlPc = "sleep"
    /\ urlLog' = Append(urlLog, Call("sleep", urlI))
    /\ urlPc' = "loop"
    /\ UNCHANGED <<urlLines, urls, urlI, downloaded, extracted, urlDocs>>
    /\ UrlUnchanged

\* line 216
UrlReturn ==
    /\ urlPc = "loop"
    /\ urlI = Len(urls)
    /\ urlPc' = "done"
    /\ UNCHANGED <<urlLines, urls, urlI, downloaded, extracted, urlDocs, urlLog>>
    /\ UrlUnchanged

UrlNext ==
    \/ UrlReadFile
    \/ UrlFor
    \/ UrlFetch
    \/ UrlFetchRaises
    \/ UrlDownloadEmpty
    \/ UrlExtract
    \/ UrlExtractRaises
    \/ UrlFallback
    \/ UrlFallbackRaises
    \/ UrlNoFallback
    \/ UrlContentEmpty
    \/ UrlAppend
    \/ UrlSleep
    \/ UrlReturn

SpecUrls == UrlInit /\ [][UrlNext]_vars

\* the first request for a url is its fetch_url call
FirstRequests == {n \in 1..Len(urlLog) : urlLog[n].op = "fetch_url"}

\* C11: no request for the next URL starts unless the delay has elapsed
\* since the previous request, whatever that request came to: every
\* fetch_url call but the first comes directly after a sleep
C11_DelayBetweenRequests ==
    \A n \in FirstRequests : n > 1 => urlLog[n - 1].op = "sleep"

\* C11, the one outcome with a delay: the sleeps made are those after the
\* urls that produced a Document
C11_DelayAfterDocument ==
    urlPc \in {"loop", "done"} =>
        Len(SelectSeq(urlLog, LAMBDA c : c.op = "sleep")) = Len(urlDocs)

====
